---- MODULE Spec2Model ----
(***************************************************************************)
(* Model of the modulation / channel / demodulation chain of STransmision: *)
(*   2_modulador.py    BaseModulator, FSK8/QAM16/PSK8 modulators,          *)
(*                     ModulationSystem                                    *)
(*   3-canal.py        add_awgn, calculate_snr_metrics, main               *)
(*   4_demodulador.py  BaseDemodulator, FSK8/QAM16/PSK8 demodulators,      *)
(*                     DemodulationSystem                                  *)
(*   5_comparacion.py  VoiceComparisonSystem                               *)
(* One frame travels through the chain: the bit file is read and modulated *)
(* into a one-hot matrix, the channel adds a noise matrix, the demodulator *)
(* detects one index per row and turns it back into bits, the padding      *)
(* recorded by the modulator is removed, and the result is compared with   *)
(* the bit file.  An exception raised by a stage ends the frame's run in   *)
(* that stage.                                                             *)
(*                                                                         *)
(* Numbers: the program computes on floats; the model uses integers, so    *)
(* amplitudes, noise samples and distances are exact, and quotients are    *)
(* kept as reduced fractions <<numerator, denominator>>.  Matrix rows are  *)
(* functions over 0..M-1, keeping the program's 0-based column indices;    *)
(* a matrix is a sequence of rows.                                         *)
(***************************************************************************)
EXTENDS Integers, Sequences, FiniteSets, TLC

VARIABLES
    pc,                \* position of the frame in the chain
    input_file,        \* the bit file: its format, header number and digits
    route,             \* how the matrix reaches demodulate_signal
    choice,            \* the last entry typed at the modulator's menu
    input_bits,        \* the bit list as read, before modulate touched it
    bits,              \* the caller's list object handed to modulate
    modulation_type,   \* the scheme tag: results['modulation_type']
    constellation_size,\* results['constellation_size']
    modulated_signal,  \* results['modulated_signal'], the one-hot matrix
    padding,           \* the 'padding' entry of the modulation metadata
    padding_known,     \* whether the metadata has a 'padding' entry
    mod_info,          \* gray_symbols / symbol_values / iq_values of modulate
    N0,                \* noise density entered for the channel run
    noise,             \* noise matrix returned by add_awgn
    noisy_signal,      \* noisy matrix returned by add_awgn
    snr_metrics,       \* <<what calculate_snr_metrics returned>>, <<>> if nothing
    received_matrix,   \* the matrix handed to demodulate_signal
    A,                 \* reference amplitude given to demodulate_signal
    detected_symbols,  \* results['detected_symbols']
    demodulated_bits,  \* results['demodulated_bits'] of demodulate_signal
    symbol_info,       \* results['symbol_info']
    final_bits,        \* remove_padding(demodulated_bits, padding)
    original_bits,     \* the codes compare_bit_sequences got as original
    reconstructed_bits,\* the codes compare_bit_sequences got as demodulated
    comparison,        \* <<what compare_bit_sequences returned>>, <<>> if nothing
    error,             \* the exception that ended the run, "" if none
    files,             \* the text and JSON files the stages wrote
    loaded_signal,     \* the array the channel's main loaded and gave to add_awgn
    second_results     \* <<what a second modulate of the same list returned>>

vars == <<pc, input_file, route, choice, input_bits, bits, modulation_type,
          constellation_size, modulated_signal, padding, padding_known,
          mod_info, N0, noise, noisy_signal, snr_metrics, received_matrix, A,
          detected_symbols, demodulated_bits, symbol_info, final_bits,
          original_bits, reconstructed_bits, comparison, error, files,
          loaded_signal, second_results>>

----------------------------------------------------------------------------
(* Bounds of the model *)

\* longest bit list read from the input file for a run without channel
MaxLen == 6
\* longest bit list read from the input file for a run through the channel,
\* and longest bit list of a file with a header line
MaxNoisyLen == 3
\* longest run of digits in a file that holds a digit other than 0 and 1
MaxBadLen == 2
\* largest noise sample (samples range over -1..MaxNoise)
MaxNoise == 2
\* largest reference amplitude (amplitudes range over -1..MaxAmp)
MaxAmp == 2

----------------------------------------------------------------------------
(* Python integer and string primitives used by the code *)

\* a ^ b on non-negative integers
RECURSIVE xor(_, _)
xor(a, b) ==
    IF a = 0 /\ b = 0 THEN 0
    ELSE (((a % 2) + (b % 2)) % 2) + 2 * xor(a \div 2, b \div 2)

\* n >> 1
shr1(n) == n \div 2

\* int("".join(map(str, bit_group)), 2): most significant bit first
RECURSIVE int_base2(_)
int_base2(group) ==
    IF Len(group) = 0 THEN 0
    ELSE 2 * int_base2(SubSeq(group, 1, Len(group) - 1)) + group[Len(group)]

\* bin(n)[2:]: the binary digits of n without leading zeros ("0" for 0)
RECURSIVE bin(_)
bin(n) == IF n < 2 THEN <<n>> ELSE bin(n \div 2) \o <<(n % 2)>>

\* str.zfill(width): zeros on the left up to width, never truncating
RECURSIVE zfill(_, _)
zfill(s, width) == IF Len(s) >= width THEN s ELSE zfill(<<0>> \o s, width)

\* [x] * n
RECURSIVE repeat(_, _)
repeat(x, n) == IF n <= 0 THEN <<>> ELSE <<x>> \o repeat(x, n - 1)

\* np.zeros(M) with component idx set to value
one_hot(M, idx, value) == [j \in 0..(M - 1) |-> IF j = idx THEN value ELSE 0]

\* [bits[i:i+B] for i in range(0, len(bits), B)]
groups(b, B) ==
    [k \in 1..((Len(b) + B - 1) \div B) |->
        SubSeq(b, (k - 1) * B + 1, IF k * B <= Len(b) THEN k * B ELSE Len(b))]

\* int(s, 2) raises ValueError when s holds a digit other than 0 and 1
int_base2_raises(group) == \E i \in DOMAIN group : group[i] \notin {0, 1}

----------------------------------------------------------------------------
(* numpy arrays and their text files *)

\* An array of two dimensions is the sequence of its rows, each row a
\* function over 0..M-1; an array of one dimension is one such function; an
\* array without elements is <<>>.  A text file is the sequence of its lines,
\* each line the row of the values written on it.

\* len(a.shape) of an array that has elements
ndim(a) == IF 0 \in DOMAIN a THEN 1 ELSE 2

\* a.shape[0]
shape0(a) == Cardinality(DOMAIN a)

\* np.savetxt(path, a): one line per row of an array of two dimensions, one
\* line per element of an array of one dimension.  The values written are
\* read back as they were: fmt='%d' writes the modulator's 0 and 1, the
\* default format writes a float with 18 decimals, NaN as "nan".
np_savetxt(a) ==
    IF ndim(a) = 1
    THEN [i \in 1..shape0(a) |-> [j \in {0} |-> a[i - 1]]]
    ELSE a

\* np.loadtxt(path): the lines as rows, then the axes of length one are
\* dropped (ndmin = 0): a file of one line gives the array of one dimension
\* of its values, a file of one value per line the array of one dimension of
\* its lines, an empty file an array without elements.  Files of one line of
\* one value do not occur: every row written has 8 or 16 values.
np_loadtxt(lines) ==
    IF Len(lines) = 0 THEN <<>>
    ELSE IF Len(lines) = 1 THEN lines[1]
    ELSE IF \A i \in DOMAIN lines : DOMAIN lines[i] = {0}
    THEN [j \in 0..(Len(lines) - 1) |-> lines[j + 1][0]]
    ELSE lines

----------------------------------------------------------------------------
(* BaseModulator *)

\* read_bits_from_file.  A file is its format (1: a line "Bits por
\* caracter: <header>" and one code of <header> digits per line; 2: one
\* value per line), the header's number and the digits of its other lines in
\* reading order; the digits of the model are 0, 1 and 2.  Format 1 converts
\* every character with int; format 2 is taken only when every line is '0'
\* or '1', and any other file leaves bits as the empty list it started as.
\* bits_per_character None is 0.
read_bits_from_file(file) ==
    IF file.format = 1
    THEN [bits |-> file.values, bits_per_character |-> file.header]
    ELSE IF \A i \in DOMAIN file.values : file.values[i] \in {0, 1}
    THEN [bits |-> file.values, bits_per_character |-> 0]
    ELSE [bits |-> <<>>, bits_per_character |-> 0]

\* apply_padding without the test of the remainder: a whole group of zeros
\* is appended to a list that needed none
apply_padding_unconditional(b, B) ==
    LET remainder == Len(b) % B
    IN  [bits |-> b \o repeat(0, B - remainder), padding |-> B - remainder]

\* apply_padding putting the zeros in front of the bits
apply_padding_in_front(b, B) ==
    LET remainder == Len(b) % B
    IN  IF remainder # 0
        THEN [bits |-> repeat(0, B - remainder) \o b, padding |-> B - remainder]
        ELSE [bits |-> b, padding |-> 0]

\* apply_padding computing the count before the test of the remainder: a
\* list that needed no zeros is left alone but a whole group is reported
apply_padding_stale_count(b, B) ==
    LET remainder == Len(b) % B
    IN  IF remainder # 0
        THEN [bits |-> b \o repeat(0, B - remainder), padding |-> B - remainder]
        ELSE [bits |-> b, padding |-> B - remainder]

\* BaseModulator.apply_padding: extends the list it is given and returns it
apply_padding(b, B) ==
    LET remainder == Len(b) % B
    IN  IF remainder # 0
        THEN [bits |-> b \o repeat(0, B - remainder), padding |-> B - remainder]
        ELSE [bits |-> b, padding |-> 0]

----------------------------------------------------------------------------
(* FSK8Modulator *)

\* the frequencies as np.linspace(0, 7e3, 8): the first one at 0 Hz
frequencies_from_zero == [i \in 0..7 |-> 1000 * i]

\* self.frequencies = np.linspace(1e3, 8e3, 8)
frequencies == [i \in 0..7 |-> 1000 + 1000 * i]

\* binary_to_gray leaving the value as it is
binary_to_gray_plain(n) == n

binary_to_gray(n) == xor(n, shr1(n))

FSK8Modulator_modulate(b) ==
    LET padded       == apply_padding(b, 3)
        grp          == groups(padded.bits, 3)
        symbols      == [k \in DOMAIN grp |-> int_base2(grp[k])]
        gray_symbols == [k \in DOMAIN grp |-> binary_to_gray(symbols[k])]
    IN  [bits               |-> padded.bits,
         modulated_signal   |-> [k \in DOMAIN grp |-> one_hot(8, gray_symbols[k], 1)],
         symbol_values      |-> [k \in DOMAIN grp |-> frequencies[gray_symbols[k]]],
         iq_values          |-> <<>>,
         gray_symbols       |-> gray_symbols,
         padding            |-> padded.padding,
         modulation_type    |-> "8FSK",
         constellation_size |-> 8]

----------------------------------------------------------------------------
(* QAM16Modulator *)

\* the table with the patterns of (-3,+3) and (+1,+1) exchanged: still one
\* pattern per point, no longer a Gray labelling
QAM16Modulator_gray_symbol_map_exchanged ==
    << <<<<1,1,1,1>>, <<-3, 3>>>>, <<<<0,1,1,0>>, <<-1, 3>>>>,
       <<<<1,1,1,0>>, << 1, 3>>>>, <<<<1,1,0,0>>, << 3, 3>>>>,
       <<<<0,1,0,1>>, <<-3, 1>>>>, <<<<0,1,1,1>>, <<-1, 1>>>>,
       <<<<0,1,0,0>>, << 1, 1>>>>, <<<<1,1,0,1>>, << 3, 1>>>>,
       <<<<0,0,0,1>>, <<-3,-1>>>>, <<<<0,0,1,1>>, <<-1,-1>>>>,
       <<<<1,0,1,1>>, << 1,-1>>>>, <<<<1,0,0,1>>, << 3,-1>>>>,
       <<<<0,0,0,0>>, <<-3,-3>>>>, <<<<0,0,1,0>>, <<-1,-3>>>>,
       <<<<1,0,1,0>>, << 1,-3>>>>, <<<<1,0,0,0>>, << 3,-3>>>> >>

\* self.gray_symbol_map, in insertion order (key '0100' is entry 0)
QAM16Modulator_gray_symbol_map ==
    << <<<<0,1,0,0>>, <<-3, 3>>>>, <<<<0,1,1,0>>, <<-1, 3>>>>,
       <<<<1,1,1,0>>, << 1, 3>>>>, <<<<1,1,0,0>>, << 3, 3>>>>,
       <<<<0,1,0,1>>, <<-3, 1>>>>, <<<<0,1,1,1>>, <<-1, 1>>>>,
       <<<<1,1,1,1>>, << 1, 1>>>>, <<<<1,1,0,1>>, << 3, 1>>>>,
       <<<<0,0,0,1>>, <<-3,-1>>>>, <<<<0,0,1,1>>, <<-1,-1>>>>,
       <<<<1,0,1,1>>, << 1,-1>>>>, <<<<1,0,0,1>>, << 3,-1>>>>,
       <<<<0,0,0,0>>, <<-3,-3>>>>, <<<<0,0,1,0>>, <<-1,-3>>>>,
       <<<<1,0,1,0>>, << 1,-3>>>>, <<<<1,0,0,0>>, << 3,-3>>>> >>

\* self.gray_symbol_map[bit_string]
QAM16Modulator_lookup(bit_string) ==
    LET m == QAM16Modulator_gray_symbol_map
    IN  m[CHOOSE e \in DOMAIN m : m[e][1] = bit_string][2]

\* self.symbol_to_index = {bits: i for i, bits in enumerate(keys())}
symbol_to_index(bit_string) ==
    LET m == QAM16Modulator_gray_symbol_map
    IN  (CHOOSE e \in DOMAIN m : m[e][1] = bit_string) - 1

QAM16Modulator_modulate(b) ==
    LET padded  == apply_padding(b, 4)
        symbols == groups(padded.bits, 4)
    IN  [bits               |-> padded.bits,
         modulated_signal   |->
             [k \in DOMAIN symbols |-> one_hot(16, symbol_to_index(symbols[k]), 1)],
         symbol_values      |-> <<>>,
         iq_values          |-> [k \in DOMAIN symbols |-> QAM16Modulator_lookup(symbols[k])],
         gray_symbols       |-> <<>>,
         padding            |-> padded.padding,
         modulation_type    |-> "16QAM",
         constellation_size |-> 16]

----------------------------------------------------------------------------
(* PSK8Modulator *)

\* gray_map listing the raw values in their natural order
PSK8Modulator_gray_map_natural ==
    [n \in 0..7 |-> <<0, 1, 2, 3, 4, 5, 6, 7>>[n + 1]]

\* self.gray_map = [0, 1, 3, 2, 6, 7, 5, 4], indexed from 0
PSK8Modulator_gray_map ==
    [n \in 0..7 |-> <<0, 1, 3, 2, 6, 7, 5, 4>>[n + 1]]

\* PSK8Modulator.modulate marking the raw value instead of its Gray symbol
PSK8Modulator_modulate_raw(b) ==
    LET padded       == apply_padding(b, 3)
        grp          == groups(padded.bits, 3)
        symbols      == [k \in DOMAIN grp |-> int_base2(grp[k])]
        gray_symbols == [k \in DOMAIN grp |-> PSK8Modulator_gray_map[symbols[k]]]
    IN  [bits               |-> padded.bits,
         modulated_signal   |-> [k \in DOMAIN grp |-> one_hot(8, symbols[k], 1)],
         symbol_values      |-> <<>>,
         iq_values          |-> gray_symbols,
         gray_symbols       |-> gray_symbols,
         padding            |-> padded.padding,
         modulation_type    |-> "8PSK",
         constellation_size |-> 8]

\* iq_values holds (cos, sin) of phases[symbol] = symbol * 2*pi/8; the model
\* keeps the phase as its multiple of 2*pi/8.
PSK8Modulator_modulate(b) ==
    LET padded       == apply_padding(b, 3)
        grp          == groups(padded.bits, 3)
        symbols      == [k \in DOMAIN grp |-> int_base2(grp[k])]
        gray_symbols == [k \in DOMAIN grp |-> PSK8Modulator_gray_map[symbols[k]]]
    IN  [bits               |-> padded.bits,
         modulated_signal   |-> [k \in DOMAIN grp |-> one_hot(8, gray_symbols[k], 1)],
         symbol_values      |-> <<>>,
         iq_values          |-> gray_symbols,
         gray_symbols       |-> gray_symbols,
         padding            |-> padded.padding,
         modulation_type    |-> "8PSK",
         constellation_size |-> 8]

----------------------------------------------------------------------------
(* ModulationSystem *)

\* self.modulators = {'1': FSK8Modulator(), '2': QAM16Modulator(), '3': PSK8Modulator()}
modulators == {"1", "2", "3"}

\* modulator = self.modulators[choice]; modulator.modulate(bits)
modulate(c, b) ==
    IF c = "1" THEN FSK8Modulator_modulate(b)
    ELSE IF c = "2" THEN QAM16Modulator_modulate(b)
    ELSE PSK8Modulator_modulate(b)

\* self.gray_symbol_map[bit_string] raises KeyError for a string that is
\* not a key of the table
QAM16Modulator_lookup_raises(bit_string) ==
    \A e \in DOMAIN QAM16Modulator_gray_symbol_map :
        QAM16Modulator_gray_symbol_map[e][1] # bit_string

\* self.bits_per_symbol of the modulator of a choice
bits_per_symbol(c) == IF c = "2" THEN 4 ELSE 3

\* the exception modulate raises on the padded list, "" when it returns:
\* int(..., 2) in the 8FSK and 8PSK loops, the table lookup in 16QAM
modulate_error(c, b) ==
    LET width == bits_per_symbol(c)
        grp   == groups(apply_padding(b, width).bits, width)
    IN  IF c = "2"
        THEN IF \E k \in DOMAIN grp : QAM16Modulator_lookup_raises(grp[k])
             THEN "KeyError" ELSE ""
        ELSE IF \E k \in DOMAIN grp : int_base2_raises(grp[k])
             THEN "ValueError: invalid literal for int() with base 2" ELSE ""

\* ModulationSystem.save_results: the lines of 2_modulated_signal.txt and
\* the entries of 2_modulation_metadata.json
ModulationSystem_save_results(results, bits_per_character) ==
    [modulated_signal_txt |-> np_savetxt(results.modulated_signal),
     modulation_metadata  |->
        [modulation_type    |-> results.modulation_type,
         constellation_size |-> results.constellation_size,
         padding            |-> results.padding,
         bits_per_character |-> bits_per_character,
         total_symbols      |-> Len(results.modulated_signal)]]

\* one pass of the loop of get_user_choice on the entry typed: None for
\* '0', the entry when it is a key of self.modulators, otherwise the prompt
\* is shown again
get_user_choice(entry) ==
    IF entry = "0" THEN "None"
    ELSE IF entry \in modulators THEN entry
    ELSE "again"

----------------------------------------------------------------------------
(* 3-canal.py *)

\* noise samples other than 0 that np.random.normal may return
NoiseVals == ((0 - 1)..MaxNoise) \ {0}

\* the float NaN, which np.sqrt returns for a negative number; the model's
\* other numbers stay far from this value
nan == 0 - 999

\* x + y on floats: NaN when either is NaN
np_add(x, y) == IF x = nan \/ y = nan THEN nan ELSE x + y

\* np.random.normal(0, sigma, size=(n, M)) with sigma = sqrt(N0 / 2): every
\* sample is NaN when sigma is NaN (N0 < 0) and 0 when sigma = 0; otherwise
\* the model draws the all-zero matrix and every matrix with exactly one
\* non-zero sample.
np_random_normal(n0, n, M) ==
    IF n0 < 0 THEN {[k \in 1..n |-> [j \in 0..(M - 1) |-> nan]]}
    ELSE {[k \in 1..n |-> [j \in 0..(M - 1) |-> 0]]} \cup
         IF n0 = 0 THEN {}
         ELSE {[k \in 1..n |-> [j \in 0..(M - 1) |-> IF k = row /\ j = col THEN v ELSE 0]] :
                 <<row, col, v>> \in (1..n) \X (0..(M - 1)) \X NoiseVals}

\* whether np.random.normal may reject a NaN scale with ValueError("scale <
\* 0"): releases of numpy that test the sign bit alone do when the NaN
\* carries it, releases that exempt NaN from the test never do
np_random_normal_may_raise(n0) == n0 < 0

\* np.random.normal(0, sigma, size=signal.shape): a draw for every
\* component of the signal, whatever its number of dimensions
np_random_normal_like(n0, signal) ==
    IF shape0(signal) = 0 THEN {<<>>}
    ELSE IF ndim(signal) = 1
    THEN {nse[1] : nse \in np_random_normal(n0, 1, shape0(signal))}
    ELSE np_random_normal(n0, Len(signal), shape0(signal[1]))

\* add_awgn adding the noise to the active component of each row only
add_awgn_active_only(signal, nse) ==
    [noisy_signal |->
        IF ndim(signal) = 1
        THEN [j \in DOMAIN signal |->
                 IF signal[j] # 0 THEN np_add(signal[j], nse[j]) ELSE signal[j]]
        ELSE [k \in DOMAIN signal |->
                 [j \in DOMAIN signal[k] |->
                     IF signal[k][j] # 0
                     THEN np_add(signal[k][j], nse[k][j])
                     ELSE signal[k][j]]],
     noise        |-> nse]

\* add_awgn: noisy_signal = signal + noise, component by component, for a
\* signal of one dimension as for one of two
add_awgn(signal, nse) ==
    [noisy_signal |->
        IF ndim(signal) = 1
        THEN [j \in DOMAIN signal |-> np_add(signal[j], nse[j])]
        ELSE [k \in DOMAIN signal |->
                 [j \in DOMAIN signal[k] |-> np_add(signal[k][j], nse[k][j])]],
     noise        |-> nse]

\* greatest common divisor of two non-negative integers
RECURSIVE gcd(_, _)
gcd(a, b) == IF b = 0 THEN a ELSE gcd(b, a % b)

\* the quotient n / d (d # 0) as a reduced fraction with a positive
\* denominator
ratio(n, d) ==
    LET sn == IF d < 0 THEN 0 - n ELSE n
        sd == IF d < 0 THEN 0 - d ELSE d
        g  == gcd(IF sn < 0 THEN 0 - sn ELSE sn, sd)
    IN  <<sn \div g, sd \div g>>

\* int(np.log2(M)) for a power of two
RECURSIVE int_log2(_)
int_log2(m) == IF m <= 1 THEN 0 ELSE 1 + int_log2(m \div 2)

\* Eb / N0 and Es / N0 on Python floats raise ZeroDivisionError for N0 = 0
calculate_snr_metrics_raises(n0) == n0 = 0

\* calculate_snr_metrics with Es left at Eb instead of Eb * bits_per_symbol
calculate_snr_metrics_unscaled(m, n0) ==
    LET bps == int_log2(m)
        Eb == ratio(1, bps)
        Es == Eb
    IN  [Eb |-> Eb, Es |-> Es,
         Eb_N0 |-> ratio(Eb[1], Eb[2] * n0),
         Es_N0 |-> ratio(Es[1], Es[2] * n0)]

\* calculate_snr_metrics for N0 # 0, with M = metadata['constellation_size'].
\* The model keeps the ratios Eb/N0 and Es/N0 where the program returns
\* 10 * log10 of them.
calculate_snr_metrics(m, n0) ==
    LET bps == int_log2(m)
        Eb == ratio(1, bps)
        Es == ratio(Eb[1] * bps, Eb[2])
    IN  [Eb |-> Eb, Es |-> Es,
         Eb_N0 |-> ratio(Eb[1], Eb[2] * n0),
         Es_N0 |-> ratio(Es[1], Es[2] * n0)]

\* save_outputs dropping the padding from the info it writes
save_outputs_without_padding(noisy, nse, metadata, snr, n0) ==
    [channel_output_txt |-> np_savetxt(noisy),
     channel_noise_txt  |-> np_savetxt(nse),
     channel_info       |->
        [modulation_type    |-> metadata.modulation_type,
         constellation_size |-> metadata.constellation_size,
         total_symbols      |-> metadata.total_symbols,
         padding            |-> 0,
         N0                 |-> n0,
         snr_metrics        |-> snr]]

\* save_outputs: the lines of 3_channel_output.txt and 3_channel_noise.txt
\* and the entries of 3_channel_info.json
save_outputs(noisy, nse, metadata, snr, n0) ==
    [channel_output_txt |-> np_savetxt(noisy),
     channel_noise_txt  |-> np_savetxt(nse),
     channel_info       |->
        [modulation_type    |-> metadata.modulation_type,
         constellation_size |-> metadata.constellation_size,
         total_symbols      |-> metadata.total_symbols,
         padding            |-> metadata.padding,
         N0                 |-> n0,
         snr_metrics        |-> snr]]

----------------------------------------------------------------------------
(* BaseDemodulator *)

\* the loop of gray_to_binary: while n: b ^= n; n >>= 1
RECURSIVE gray_fold(_, _)
gray_fold(n, b) == IF n = 0 THEN b ELSE gray_fold(shr1(n), xor(b, n))

\* gray_to_binary as the inverse of a two-bit code: one fold instead of the loop
gray_to_binary_one_fold(n) == xor(n, shr1(n))

gray_to_binary(n) == gray_fold(n, 0)

\* np.sum(v) of a vector over 0..M-1
RECURSIVE np_sum(_, _)
np_sum(v, M) == IF M = 0 THEN 0 ELSE np_sum(v, M - 1) + v[M - 1]

\* np.argmin(distances): the first position holding the smallest value;
\* distances is the list built by append, its entry i + 1 belongs to index i
RECURSIVE argmin_from(_, _, _)
argmin_from(distances, i, best) ==
    IF i >= Len(distances) THEN best
    ELSE argmin_from(distances, i + 1,
                     IF distances[i + 1] < distances[best + 1] THEN i ELSE best)

\* an argmin scan comparing with <=: the last smallest value wins
RECURSIVE argmin_last_from(_, _, _)
argmin_last_from(distances, i, best) ==
    IF i >= Len(distances) THEN best
    ELSE argmin_last_from(distances, i + 1,
                          IF distances[i + 1] <= distances[best + 1] THEN i ELSE best)

np_argmin_last(distances) == argmin_last_from(distances, 1, 0)

np_argmin(distances) == argmin_from(distances, 1, 0)

\* the distances taken as np.sum(np.abs(r - s_i)), without the square
RECURSIVE distances_upto_abs(_, _, _, _)
distances_upto_abs(r, M, amp, n) ==
    IF n = 0 THEN <<>>
    ELSE LET s_i  == one_hot(M, n - 1, amp)
             diff == [j \in 0..(M - 1) |->
                        IF r[j] >= s_i[j] THEN r[j] - s_i[j] ELSE s_i[j] - r[j]]
         IN  Append(distances_upto_abs(r, M, amp, n - 1), np_sum(diff, M))

\* the loop over i in range(constellation_size): distances.append(d) with
\* d = np.sum((r - s_i) ** 2), for the first n candidate indices
RECURSIVE distances_upto(_, _, _, _)
distances_upto(r, M, amp, n) ==
    IF n = 0 THEN <<>>
    ELSE LET s_i  == one_hot(M, n - 1, amp)
             diff == [j \in 0..(M - 1) |-> (r[j] - s_i[j]) * (r[j] - s_i[j])]
         IN  Append(distances_upto(r, M, amp, n - 1), np_sum(diff, M))

\* number of components of a row
row_width(r) == Cardinality(DOMAIN r)

\* r - s_i with s_i of M components: numpy raises ValueError (operands
\* could not be broadcast together) unless r has M components or one
np_broadcast_raises(r, M) == row_width(r) \notin {1, M}

\* numpy broadcasting of r against M components: a row of one component
\* stands for M copies of it
np_broadcast(r, M) ==
    IF row_width(r) = 1 /\ M # 1 THEN [j \in 0..(M - 1) |-> r[0]] ELSE r

\* whether a row holds a NaN: every distance of the row then is NaN
has_nan(r) == \E j \in DOMAIN r : r[j] = nan

\* the body of the loop over idx: the distances of row r, then their argmin;
\* np.argmin of a list of NaN is the position of the first NaN, 0
detect_row(r, M, amp) ==
    IF has_nan(r) THEN 0
    ELSE np_argmin(distances_upto(np_broadcast(r, M), M, amp, M))

\* the loop over idx reading row 0 on every pass instead of row idx
RECURSIVE detect_upto_first_row(_, _, _, _)
detect_upto_first_row(received, M, amp, n) ==
    IF n = 0 THEN <<>>
    ELSE Append(detect_upto_first_row(received, M, amp, n - 1),
                detect_row(received[1], M, amp))

\* the loop over idx in range(num_symbols), for the first n rows
RECURSIVE detect_upto(_, _, _, _)
detect_upto(received, M, amp, n) ==
    IF n = 0 THEN <<>>
    ELSE Append(detect_upto(received, M, amp, n - 1), detect_row(received[n], M, amp))

\* demodulate_bayes, the same code in the three demodulators
demodulate_bayes(received, M, amp) == detect_upto(received, M, amp, Len(received))

\* demodulate_bayes raises at the first distance of the first row when the
\* rows cannot be broadcast; a matrix without rows never enters the loop
demodulate_bayes_raises(received, M) ==
    Len(received) > 0 /\ np_broadcast_raises(received[1], M)

\* received_matrix[idx, :] raises IndexError (too many indices for array)
\* on an array of one dimension: num_symbols is its length and the loop
\* starts
demodulate_bayes_index_error(received) == ndim(received) = 1

----------------------------------------------------------------------------
(* FSK8Demodulator *)

FSK8Demodulator_demodulate_bayes(received, amp) == demodulate_bayes(received, 8, amp)

FSK8Demodulator_symbol_to_bits(symbol) == zfill(bin(gray_to_binary(symbol)), 3)

\* self.frequencies = np.linspace(1e3, 8e3, 8) of the demodulator
FSK8Demodulator_frequencies == [i \in 0..7 |-> 1000 + 1000 * i]

FSK8Demodulator_get_symbol_info(detected) ==
    [k \in DOMAIN detected |->
        [index  |-> detected[k],
         binary |-> gray_to_binary(detected[k]),
         bits   |-> <<>>,
         point  |-> FSK8Demodulator_frequencies[detected[k]]]]

----------------------------------------------------------------------------
(* QAM16Demodulator *)

\* the demodulator's table with its first two entries in the other order
QAM16Demodulator_gray_symbol_map_reordered ==
    [e \in 1..16 |->
        QAM16Modulator_gray_symbol_map[IF e = 1 THEN 2 ELSE IF e = 2 THEN 1 ELSE e]]

\* self.gray_symbol_map of the demodulator, in insertion order
QAM16Demodulator_gray_symbol_map ==
    << <<<<0,1,0,0>>, <<-3, 3>>>>, <<<<0,1,1,0>>, <<-1, 3>>>>,
       <<<<1,1,1,0>>, << 1, 3>>>>, <<<<1,1,0,0>>, << 3, 3>>>>,
       <<<<0,1,0,1>>, <<-3, 1>>>>, <<<<0,1,1,1>>, <<-1, 1>>>>,
       <<<<1,1,1,1>>, << 1, 1>>>>, <<<<1,1,0,1>>, << 3, 1>>>>,
       <<<<0,0,0,1>>, <<-3,-1>>>>, <<<<0,0,1,1>>, <<-1,-1>>>>,
       <<<<1,0,1,1>>, << 1,-1>>>>, <<<<1,0,0,1>>, << 3,-1>>>>,
       <<<<0,0,0,0>>, <<-3,-3>>>>, <<<<0,0,1,0>>, <<-1,-3>>>>,
       <<<<1,0,1,0>>, << 1,-3>>>>, <<<<1,0,0,0>>, << 3,-3>>>> >>

\* self.index_to_bits = {i: bits for i, bits in enumerate(keys())}
index_to_bits(symbol) == QAM16Demodulator_gray_symbol_map[symbol + 1][1]

\* self.gray_symbol_map[bit_string] in the demodulator
QAM16Demodulator_lookup(bit_string) ==
    LET m == QAM16Demodulator_gray_symbol_map
    IN  m[CHOOSE e \in DOMAIN m : m[e][1] = bit_string][2]

QAM16Demodulator_demodulate_bayes(received, amp) == demodulate_bayes(received, 16, amp)

QAM16Demodulator_symbol_to_bits(symbol) == index_to_bits(symbol)

QAM16Demodulator_get_symbol_info(detected) ==
    [k \in DOMAIN detected |->
        [index  |-> detected[k],
         binary |-> 0,
         bits   |-> index_to_bits(detected[k]),
         point  |-> QAM16Demodulator_lookup(index_to_bits(detected[k]))]]

----------------------------------------------------------------------------
(* PSK8Demodulator *)

PSK8Demodulator_gray_map ==
    [n \in 0..7 |-> <<0, 1, 3, 2, 6, 7, 5, 4>>[n + 1]]

\* inverse_gray_map built as {k: v ...}: the table itself, not its inverse
inverse_gray_map_forward == [k \in 0..7 |-> PSK8Demodulator_gray_map[k]]

\* self.inverse_gray_map = {v: k for k, v in enumerate(self.gray_map)}
inverse_gray_map ==
    [v \in {PSK8Demodulator_gray_map[k] : k \in 0..7} |->
        CHOOSE k \in 0..7 : PSK8Demodulator_gray_map[k] = v]

PSK8Demodulator_demodulate_bayes(received, amp) == demodulate_bayes(received, 8, amp)

PSK8Demodulator_symbol_to_bits(symbol) == zfill(bin(inverse_gray_map[symbol]), 3)

\* phases and iq_values are kept as the phase's multiple of 2*pi/8
PSK8Demodulator_get_symbol_info(detected) ==
    [k \in DOMAIN detected |->
        [index  |-> detected[k],
         binary |-> inverse_gray_map[detected[k]],
         bits   |-> <<>>,
         point  |-> detected[k]]]

----------------------------------------------------------------------------
(* DemodulationSystem *)

\* the keys of self.demodulators
demodulators == {"8FSK", "16QAM", "8PSK"}

\* demodulate_signal taking the 8PSK demodulator for every tag it does not
\* know
demodulate_signal_default(mtype) == FALSE

\* if modulation_type not in self.demodulators: raise ValueError
demodulate_signal_raises(mtype) == mtype \notin demodulators

\* self.constellation_size of the demodulator of a tag
get_constellation_size(mtype) == IF mtype = "16QAM" THEN 16 ELSE 8

\* demodulated_bits.extend(...) for every detected symbol, in order
RECURSIVE extend_all(_, _)
extend_all(patterns, n) ==
    IF n = 0 THEN <<>> ELSE extend_all(patterns, n - 1) \o patterns[n]

\* demodulator = self.demodulators[modulation_type]; demodulator.demodulate_bayes
detect(received, mtype, amp) ==
    IF mtype = "8FSK" THEN FSK8Demodulator_demodulate_bayes(received, amp)
    ELSE IF mtype = "16QAM" THEN QAM16Demodulator_demodulate_bayes(received, amp)
    ELSE PSK8Demodulator_demodulate_bayes(received, amp)

\* demodulator.symbol_to_bits
symbol_to_bits(mtype, symbol) ==
    IF mtype = "8FSK" THEN FSK8Demodulator_symbol_to_bits(symbol)
    ELSE IF mtype = "16QAM" THEN QAM16Demodulator_symbol_to_bits(symbol)
    ELSE PSK8Demodulator_symbol_to_bits(symbol)

\* the loop turning the detected symbols into demodulated_bits
symbols_to_bits(mtype, detected) ==
    extend_all([k \in DOMAIN detected |-> symbol_to_bits(mtype, detected[k])],
               Len(detected))

\* demodulator.get_symbol_info
get_symbol_info(mtype, detected) ==
    IF mtype = "8FSK" THEN FSK8Demodulator_get_symbol_info(detected)
    ELSE IF mtype = "16QAM" THEN QAM16Demodulator_get_symbol_info(detected)
    ELSE PSK8Demodulator_get_symbol_info(detected)

\* remove_padding without the test of padding: bits[:-0] is the empty list
remove_padding_unguarded(b, pad) ==
    IF pad = 0 THEN <<>> ELSE SubSeq(b, 1, Len(b) - pad)

\* remove_padding: bits[:-padding] when padding > 0, else bits
remove_padding(b, pad) ==
    IF pad > 0 THEN SubSeq(b, 1, Len(b) - pad) ELSE b

\* DemodulationSystem.save_results: the entries of 4_demodulation_info.json
\* (elapsed_time left out); the bits of 4_demodulated_bits.txt are
\* final_bits
DemodulationSystem_save_results(detected, channel_info, modulation_metadata) ==
    [modulation_type         |-> modulation_metadata.modulation_type,
     constellation_size      |-> modulation_metadata.constellation_size,
     total_symbols_processed |-> Len(detected),
     padding_removed         |-> modulation_metadata.padding,
     bits_per_character      |-> modulation_metadata.bits_per_character,
     snr_info                |-> channel_info.snr_metrics]

----------------------------------------------------------------------------
(* VoiceComparisonSystem *)

\* the lines of the bit file after the header, each a string of digits
file_lines(file) ==
    IF file.format = 1 THEN groups(file.values, file.header)
    ELSE [i \in DOMAIN file.values |-> <<file.values[i]>>]

\* read_voice_processing_bits, and the reading of the alternative file in
\* run_comparison: every line after the header is one code
read_voice_processing_bits(file) ==
    [bits               |-> file_lines(file),
     bits_per_character |-> IF file.format = 1 THEN file.header ELSE 0]

is_bit(b) == b \in {0, 1}

\* read_demodulated_bits: the lines '0' and '1' of 4_demodulated_bits.txt,
\* each as a string of one character
read_demodulated_bits(saved) ==
    LET kept == SelectSeq(saved, is_bit)
    IN  [i \in DOMAIN kept |-> <<kept[i]>>]

\* the groups taken at every position instead of every bits_per_character
reconstruct_voice_format_sliding(demodulated, bpc) ==
    [k \in 1..(Len(demodulated) \div bpc) |->
        extend_all(SubSeq(demodulated, k, k + bpc - 1), bpc)]

\* reconstruct_voice_format: the complete groups of bits_per_character
\* strings, each joined into one code; an incomplete last group is dropped
reconstruct_voice_format(demodulated, bpc) ==
    [k \in 1..(Len(demodulated) \div bpc) |->
        extend_all(SubSeq(demodulated, (k - 1) * bpc + 1, k * bpc), bpc)]

\* min(len(original_bits), len(demodulated_bits))
min_length(original, demodulated) ==
    IF Len(original) <= Len(demodulated) THEN Len(original) ELSE Len(demodulated)

\* sum(1 for b1, b2 in zip(c1, c2) if b1 != b2) over the first n pairs
RECURSIVE zip_errors(_, _, _)
zip_errors(c1, c2, n) ==
    IF n = 0 THEN 0
    ELSE zip_errors(c1, c2, n - 1) + (IF c1[n] # c2[n] THEN 1 ELSE 0)

\* the counters of the loop of compare_bit_sequences after n codes
RECURSIVE errores_por_codigo_upto(_, _, _)
errores_por_codigo_upto(original, demodulated, n) ==
    IF n = 0 THEN 0
    ELSE errores_por_codigo_upto(original, demodulated, n - 1)
         + (IF original[n] # demodulated[n] THEN 1 ELSE 0)

RECURSIVE errores_por_bit_upto(_, _, _)
errores_por_bit_upto(original, demodulated, n) ==
    IF n = 0 THEN 0
    ELSE errores_por_bit_upto(original, demodulated, n - 1)
         + zip_errors(original[n], demodulated[n],
                      min_length(original[n], demodulated[n]))

RECURSIVE total_bits_upto(_, _)
total_bits_upto(original, n) ==
    IF n = 0 THEN 0 ELSE total_bits_upto(original, n - 1) + Len(original[n])

\* compare_bit_sequences: the counts it returns; the percentages and the
\* symbol error probability it derives from them are left out
compare_bit_sequences(original, demodulated) ==
    LET n == min_length(original, demodulated)
    IN  [total_codigos      |-> n,
         total_bits         |-> total_bits_upto(original, n),
         errores_por_codigo |-> errores_por_codigo_upto(original, demodulated, n),
         errores_por_bit    |-> errores_por_bit_upto(original, demodulated, n)]

----------------------------------------------------------------------------
(* State machine *)

BitSeqs(maxlen) == UNION {[1..n -> {0, 1}] : n \in 0..maxlen}

\* files holding a digit other than 0 and 1
MalformedSeqs(maxlen) ==
    {v \in UNION {[1..n -> {0, 1, 2}] : n \in 1..maxlen} : \E i \in DOMAIN v : v[i] = 2}

\* the widths a header may announce for n bits: the codes fill whole lines
CodeWidths(n) == {w \in 1..MaxNoisyLen : n % w = 0}

Run(format, header, values, rt, n0) ==
    [file  |-> [format |-> format, header |-> header, values |-> values],
     route |-> rt,
     N0    |-> n0]

\* values of N0 entered for the channel: negative, zero, positive
ChannelN0 == {0 - 1, 0, 1}

\* the widest code a header may announce for n bits
WidestCode(n) == CHOOSE w \in CodeWidths(n) : \A v \in CodeWidths(n) : v <= w

\* bit lists of two symbols under 8FSK and 8PSK, of one under 16QAM: the
\* first and the last bit alike, the bits between them the other value
TwoSymbolFrames ==
    {[i \in 1..(MaxNoisyLen + 1) |->
         IF i \in {1, MaxNoisyLen + 1} THEN x ELSE 1 - x] : x \in {0, 1}}

\* bit lists of two symbols under every scheme: all zeros, all ones
LongFrames == {[i \in 1..(MaxNoisyLen + 2) |-> x] : x \in {0, 1}}

\* The runs explored: the bit file, the route of the matrix to
\* demodulate_signal and the N0 entered for the channel.
\*   "direct":  the modulated matrix is handed to demodulate_signal as it is
\*   "channel": the matrix goes through the files, the channel's main and
\*              the demodulator's run
\*   "foreign": demodulate_signal gets a matrix, a tag and metadata that did
\*              not come from this frame's modulation
Inputs ==
    {Run(2, 0, b, "direct", 0) : b \in BitSeqs(MaxLen)}
    \cup UNION {{Run(1, w, b, "direct", 0) : w \in CodeWidths(Len(b))} :
                   b \in BitSeqs(MaxNoisyLen)}
    \cup {Run(2, 0, b, "channel", n0) : b \in BitSeqs(MaxNoisyLen), n0 \in ChannelN0}
    \cup {Run(1, WidestCode(Len(b)), b, "channel", 1) : b \in TwoSymbolFrames}
    \cup {Run(2, 0, b, "channel", 1) : b \in LongFrames}
    \cup {Run(f, IF f = 1 THEN 1 ELSE 0, v, "direct", 0) :
             f \in {1, 2}, v \in MalformedSeqs(MaxBadLen)}
    \cup {Run(2, 0, b, "foreign", 0) : b \in BitSeqs(1)}

Init ==
    /\ pc = "start"
    /\ \E run \in Inputs :
         /\ input_file = run.file
         /\ route = run.route
         /\ N0 = run.N0
    /\ choice = ""
    /\ input_bits = <<>>
    /\ bits = <<>>
    /\ modulation_type = ""
    /\ constellation_size = 0
    /\ modulated_signal = <<>>
    /\ padding = 0
    /\ padding_known = FALSE
    /\ mod_info = [gray_symbols |-> <<>>, symbol_values |-> <<>>, iq_values |-> <<>>]
    /\ noise = <<>>
    /\ noisy_signal = <<>>
    /\ snr_metrics = <<>>
    /\ received_matrix = <<>>
    /\ A = 0
    /\ detected_symbols = <<>>
    /\ demodulated_bits = <<>>
    /\ symbol_info = <<>>
    /\ final_bits = <<>>
    /\ original_bits = <<>>
    /\ reconstructed_bits = <<>>
    /\ comparison = <<>>
    /\ error = ""
    /\ files = [modulated_signal_txt |-> <<>>,
                modulation_metadata  |-> <<>>,
                channel_output_txt   |-> <<>>,
                channel_noise_txt    |-> <<>>,
                channel_info         |-> <<>>,
                demodulation_info    |-> <<>>]
    /\ loaded_signal = <<>>
    /\ second_results = <<>>

\* what may be typed at the menu
Entries == {"0", "1", "2", "3", "4"}

\* get_user_choice on an entry that is neither '0' nor a known choice: the
\* message is printed and the prompt comes back
InvalidChoice ==
    /\ pc = "start"
    /\ route # "foreign"
    /\ \E entry \in Entries :
         /\ get_user_choice(entry) = "again"
         /\ choice' = entry
    /\ UNCHANGED <<pc, input_file, route, input_bits, bits, modulation_type,
                   constellation_size, modulated_signal, padding, padding_known,
                   mod_info, N0, noise, noisy_signal, snr_metrics,
                   received_matrix, A, detected_symbols, demodulated_bits,
                   symbol_info, final_bits, original_bits, reconstructed_bits,
                   comparison, error, files, loaded_signal, second_results>>

\* ModulationSystem.run when get_user_choice returns None: the loop ends
Exit ==
    /\ pc = "start"
    /\ route # "foreign"
    /\ \E entry \in Entries :
         /\ get_user_choice(entry) = "None"
         /\ choice' = entry
    /\ pc' = "exit"
    /\ UNCHANGED <<input_file, route, input_bits, bits, modulation_type,
                   constellation_size, modulated_signal, padding, padding_known,
                   mod_info, N0, noise, noisy_signal, snr_metrics,
                   received_matrix, A, detected_symbols, demodulated_bits,
                   symbol_info, final_bits, original_bits, reconstructed_bits,
                   comparison, error, files, loaded_signal, second_results>>

\* ModulationSystem.run for a known choice: the bits are read from the file,
\* the chosen modulator modulates them and save_results writes the matrix
\* and the metadata; an exception of modulate is caught by run and nothing
\* is saved, the list read staying as apply_padding left it
Modulate ==
    /\ pc = "start"
    /\ route # "foreign"
    /\ \E entry \in Entries :
         /\ get_user_choice(entry) \in modulators
         /\ choice' = get_user_choice(entry)
    /\ input_bits' = read_bits_from_file(input_file).bits
    /\ IF modulate_error(choice', input_bits') # ""
       THEN /\ error' = modulate_error(choice', input_bits')
            /\ bits' = apply_padding(input_bits', bits_per_symbol(choice')).bits
            /\ pc' = "modulation_failed"
            /\ UNCHANGED <<modulation_type, constellation_size, modulated_signal,
                           padding, padding_known, mod_info, files>>
       ELSE /\ LET results == modulate(choice', input_bits')
                   saved   == ModulationSystem_save_results(results,
                                 read_bits_from_file(input_file).bits_per_character)
               IN  /\ bits' = results.bits
                   /\ modulation_type' = results.modulation_type
                   /\ constellation_size' = results.constellation_size
                   /\ modulated_signal' = results.modulated_signal
                   /\ padding' = results.padding
                   /\ mod_info' = [gray_symbols  |-> results.gray_symbols,
                                   symbol_values |-> results.symbol_values,
                                   iq_values     |-> results.iq_values]
                   /\ files' = [files EXCEPT
                                   !.modulated_signal_txt = saved.modulated_signal_txt,
                                   !.modulation_metadata = <<saved.modulation_metadata>>]
            /\ padding_known' = TRUE
            /\ pc' = "modulated"
            /\ UNCHANGED error
    /\ UNCHANGED <<input_file, route, N0, noise, noisy_signal, snr_metrics,
                   received_matrix, A, detected_symbols, demodulated_bits,
                   symbol_info, final_bits, original_bits, reconstructed_bits,
                   comparison, loaded_signal, second_results>>

\* modulate called a second time, by a caller that kept the list the first
\* call returned: the same modulator, the same list object
ModulateAgain ==
    /\ pc = "modulated"
    /\ route = "direct"
    /\ second_results' = <<modulate(choice, bits)>>
    /\ bits' = second_results'[1].bits
    /\ pc' = "modulated_again"
    /\ UNCHANGED <<input_file, route, choice, input_bits, modulation_type,
                   constellation_size, modulated_signal, padding, padding_known,
                   mod_info, N0, noise, noisy_signal, snr_metrics,
                   received_matrix, A, detected_symbols, demodulated_bits,
                   symbol_info, final_bits, original_bits, reconstructed_bits,
                   comparison, error, files, loaded_signal>>

\* main of the channel: the signal and the metadata are loaded from the
\* modulator's files, then add_awgn, then calculate_snr_metrics, then
\* save_outputs.  An exception is not caught: the run ends and nothing is
\* saved.  With N0 < 0 np.random.normal either rejects the NaN scale or
\* returns NaN samples, depending on the numpy release; with N0 = 0
\* calculate_snr_metrics divides by zero after add_awgn has returned.  The
\* generator of np.random is never seeded by the program: every run draws
\* its own noise.
main ==
    /\ route = "channel"
    /\ loaded_signal' = np_loadtxt(files.modulated_signal_txt)
    /\ \/ /\ np_random_normal_may_raise(N0)
          /\ error' = "ValueError: scale < 0"
          /\ pc' = "channel_failed"
          /\ noise' = <<>>
          /\ noisy_signal' = <<>>
          /\ snr_metrics' = <<>>
          /\ UNCHANGED files
       \/ /\ \E nse \in np_random_normal_like(N0, loaded_signal') :
               LET out == add_awgn(loaded_signal', nse)
               IN  /\ noisy_signal' = out.noisy_signal
                   /\ noise' = out.noise
          /\ IF calculate_snr_metrics_raises(N0)
             THEN /\ error' = "ZeroDivisionError"
                  /\ pc' = "channel_failed"
                  /\ snr_metrics' = <<>>
                  /\ UNCHANGED files
             ELSE /\ snr_metrics' =
                        <<calculate_snr_metrics(
                             files.modulation_metadata[1].constellation_size, N0)>>
                  /\ LET saved == save_outputs(noisy_signal', noise',
                                     files.modulation_metadata[1], snr_metrics'[1], N0)
                     IN  files' = [files EXCEPT
                                      !.channel_output_txt = saved.channel_output_txt,
                                      !.channel_noise_txt = saved.channel_noise_txt,
                                      !.channel_info = <<saved.channel_info>>]
                  /\ pc' = "received"
                  /\ UNCHANGED error
    /\ UNCHANGED <<input_file, route, choice, input_bits, bits, modulation_type,
                   constellation_size, modulated_signal, padding, padding_known,
                   mod_info, N0, received_matrix, A, detected_symbols,
                   demodulated_bits, symbol_info, final_bits, original_bits,
                   reconstructed_bits, comparison, second_results>>

\* the channel's program run on the modulator's files
Channel ==
    /\ pc = "modulated"
    /\ main

\* the channel's program run once more on the same files with the same N0.
\* With N0 > 0 every draw can follow every draw: the second run is
\* explored after a first run that drew no noise, its own draw being any.
ChannelAgain ==
    /\ pc = "received"
    /\ N0 > 0 => noisy_signal = loaded_signal
    /\ main

\* reference amplitudes the operator may enter
Amplitudes == (0 - 1)..MaxAmp

\* DemodulationSystem.demodulate_signal(received, mtype, amp): an unknown
\* tag raises before anything else; otherwise the symbols are detected,
\* turned into bits, and described; an exception of the detection leaves no
\* result
demodulate_signal(received, mtype, amp) ==
    /\ received_matrix' = received
    /\ modulation_type' = mtype
    /\ A' = amp
    /\ IF demodulate_signal_raises(mtype)
       THEN /\ error' = "ValueError: Tipo de modulacion no soportado"
            /\ pc' = "demodulation_failed"
            /\ UNCHANGED <<detected_symbols, demodulated_bits, symbol_info>>
       ELSE IF demodulate_bayes_index_error(received)
       THEN /\ error' = "IndexError: too many indices for array"
            /\ pc' = "demodulation_failed"
            /\ UNCHANGED <<detected_symbols, demodulated_bits, symbol_info>>
       ELSE IF demodulate_bayes_raises(received, get_constellation_size(mtype))
       THEN /\ error' = "ValueError: operands could not be broadcast together"
            /\ pc' = "demodulation_failed"
            /\ UNCHANGED <<detected_symbols, demodulated_bits, symbol_info>>
       ELSE /\ detected_symbols' = detect(received, mtype, amp)
            /\ demodulated_bits' = symbols_to_bits(mtype, detected_symbols')
            /\ symbol_info' = get_symbol_info(mtype, detected_symbols')
            /\ pc' = "demodulated"
            /\ UNCHANGED error

\* DemodulationSystem.run up to demodulate_signal: load_channel_output
\* loads the channel's output and the modulation metadata, whose tag
\* chooses the demodulator
Demodulate ==
    /\ pc = "received"
    /\ \E amp \in Amplitudes :
         demodulate_signal(np_loadtxt(files.channel_output_txt),
                           files.modulation_metadata[1].modulation_type, amp)
    /\ UNCHANGED <<input_file, route, choice, input_bits, bits,
                   constellation_size, modulated_signal, padding, padding_known,
                   mod_info, N0, noise, noisy_signal, snr_metrics, final_bits,
                   original_bits, reconstructed_bits, comparison, files, loaded_signal,
                   second_results>>

\* demodulate_signal called on the modulator's matrix as it is
DemodulateDirect ==
    /\ pc = "modulated"
    /\ route = "direct"
    /\ \E amp \in Amplitudes : demodulate_signal(modulated_signal, modulation_type, amp)
    /\ UNCHANGED <<input_file, route, choice, input_bits, bits,
                   constellation_size, modulated_signal, padding, padding_known,
                   mod_info, N0, noise, noisy_signal, snr_metrics, final_bits,
                   original_bits, reconstructed_bits, comparison, files, loaded_signal,
                   second_results>>

\* what a caller may hand to demodulate_signal besides a frame's own data:
\* tags, row widths, one-row matrices, and metadata with or without padding
ForeignTags == demodulators \cup {"4ASK"}
ForeignWidths == {1, 2, 8, 16}
ForeignMatrices == {<<one_hot(W, idx, 1)>> : W \in ForeignWidths, idx \in {0, 1}}
MetadataPaddings == {0, 1}

\* demodulate_signal called on a matrix and metadata from elsewhere
DemodulateForeign ==
    /\ pc = "start"
    /\ route = "foreign"
    /\ \E known \in BOOLEAN :
         /\ padding_known' = known
         /\ \E pad \in MetadataPaddings : padding' = IF known THEN pad ELSE 0
    /\ \E received \in ForeignMatrices, mtype \in ForeignTags, amp \in Amplitudes :
         demodulate_signal(received, mtype, amp)
    /\ UNCHANGED <<input_file, route, choice, input_bits, bits,
                   constellation_size, modulated_signal, mod_info, N0, noise,
                   noisy_signal, snr_metrics, final_bits, original_bits,
                   reconstructed_bits, comparison, files, loaded_signal, second_results>>

\* DemodulationSystem.run after demodulate_signal: remove_padding with
\* modulation_metadata['padding'], a KeyError when the entry is missing,
\* then save_results when the run works on the channel's files; run catches
\* the exception and saves nothing
RemovePadding ==
    /\ pc = "demodulated"
    /\ IF padding_known
       THEN /\ final_bits' = remove_padding(demodulated_bits, padding)
            /\ files' =
                  IF route = "channel"
                  THEN [files EXCEPT !.demodulation_info =
                           <<DemodulationSystem_save_results(detected_symbols,
                                files.channel_info[1], files.modulation_metadata[1])>>]
                  ELSE files
            /\ pc' = "done"
            /\ UNCHANGED error
       ELSE /\ error' = "KeyError: 'padding'"
            /\ pc' = "demodulation_failed"
            /\ UNCHANGED <<final_bits, files>>
    /\ UNCHANGED <<input_file, route, choice, input_bits, bits, modulation_type,
                   constellation_size, modulated_signal, padding, padding_known,
                   mod_info, N0, noise, noisy_signal, snr_metrics,
                   received_matrix, A, detected_symbols, demodulated_bits,
                   symbol_info, original_bits, reconstructed_bits, comparison,
                   loaded_signal, second_results>>

\* VoiceComparisonSystem.run_comparison: the bit file and the demodulated
\* bits are read, the codes are rebuilt when the file announced their width,
\* and compare_bit_sequences compares the two lists
Compare ==
    /\ pc = "done"
    /\ original_bits' = read_voice_processing_bits(input_file).bits
    /\ reconstructed_bits' =
          IF read_voice_processing_bits(input_file).bits_per_character # 0
             /\ Len(read_demodulated_bits(final_bits)) > 0
          THEN reconstruct_voice_format(read_demodulated_bits(final_bits),
                  read_voice_processing_bits(input_file).bits_per_character)
          ELSE read_demodulated_bits(final_bits)
    /\ comparison' = <<compare_bit_sequences(original_bits', reconstructed_bits')>>
    /\ pc' = "compared"
    /\ UNCHANGED <<input_file, route, choice, input_bits, bits, modulation_type,
                   constellation_size, modulated_signal, padding, padding_known,
                   mod_info, N0, noise, noisy_signal, snr_metrics,
                   received_matrix, A, detected_symbols, demodulated_bits,
                   symbol_info, final_bits, error, files, loaded_signal, second_results>>

Next ==
    \/ InvalidChoice
    \/ Exit
    \/ Modulate
    \/ ModulateAgain
    \/ Channel
    \/ ChannelAgain
    \/ Demodulate
    \/ DemodulateDirect
    \/ DemodulateForeign
    \/ RemovePadding
    \/ Compare

Spec == Init /\ [][Next]_vars

----------------------------------------------------------------------------
(* Vocabulary of the properties *)

\* bits per symbol and constellation size of the scheme in use
B == IF modulation_type = "16QAM" THEN 4 ELSE 3
M == IF modulation_type = "16QAM" THEN 16 ELSE 8

Zeros(n) == [i \in 1..n |-> 0]

\* the k-th consecutive group of width w of a bit sequence
Group(seq, k, w) == [i \in 1..w |-> seq[(k - 1) * w + i]]

\* unsigned value of a bit pattern, first bit most significant
Value(g) ==
    IF Len(g) = 3 THEN 4 * g[1] + 2 * g[2] + g[3]
    ELSE 8 * g[1] + 4 * g[2] + 2 * g[3] + g[4]

\* the reflected Gray sequence of 8 points: one-hot index of raw value n
Gray8 == <<0, 1, 3, 2, 6, 7, 5, 4>>

\* values of the 16QAM table's patterns in row order, '0100' first
QamOrder == <<4, 6, 14, 12, 5, 7, 15, 13, 1, 3, 11, 9, 0, 2, 10, 8>>

\* the alphabet index of a bit group under the scheme in use
AlphabetIndex(g) ==
    IF modulation_type = "16QAM"
    THEN (CHOOSE p \in 1..16 : QamOrder[p] = Value(g)) - 1
    ELSE Gray8[Value(g) + 1]

\* the frame's own modulation returned its results
Modulated ==
    /\ route # "foreign"
    /\ pc \in {"modulated", "modulated_again", "received", "channel_failed",
               "demodulation_failed", "demodulated", "done", "compared"}

\* demodulate_signal returned its results for the frame's own matrix
Demodulated ==
    /\ route # "foreign"
    /\ pc \in {"demodulated", "done", "compared"}

Noiseless == received_matrix = modulated_signal

\* a row of real numbers
IsReal(r) == \A j \in DOMAIN r : r[j] # nan

----------------------------------------------------------------------------
(* C3 - Padding invariant: whatever the input length and the scheme's      *)
(* bits per symbol (3 or 4), the padded sequence left by apply_padding has *)
(* a length that is a multiple of the bits per symbol, and the padding     *)
(* count is at least 0 and less than the bits per symbol.                  *)
PaddingInvariant ==
    Modulated => /\ Len(bits) % B = 0
                 /\ 0 <= padding
                 /\ padding < B

\* a 16QAM frame of 6 bits: two bits of padding complete the second symbol
PaddingInvariantWitness ==
    /\ pc = "modulated"
    /\ modulation_type = "16QAM"
    /\ Len(input_bits) = 6
    /\ padding = 2
    /\ Len(bits) = 8

----------------------------------------------------------------------------
(* C4 - Framing content: the padded sequence is the original bits,         *)
(* unchanged and in order, followed by B - (L mod B) zeros when L mod B is *)
(* not 0 and by nothing when it is 0, and the padding count says so.       *)
FramingContent ==
    Modulated =>
        LET L        == Len(input_bits)
            expected == IF L % B # 0 THEN B - (L % B) ELSE 0
        IN  /\ padding = expected
            /\ bits = input_bits \o Zeros(expected)

\* five bits ending in 1 under a 3-bit scheme: one zero follows the last bit
FramingContentWitness ==
    /\ pc = "modulated"
    /\ modulation_type = "8FSK"
    /\ input_bits = <<1, 0, 1, 1, 1>>
    /\ bits = <<1, 0, 1, 1, 1, 0>>
    /\ padding = 1

----------------------------------------------------------------------------
(* C5 - Modulation output: the matrix has one row per group of B padded    *)
(* bits and one column per constellation point; row k holds 1 at the       *)
(* alphabet index of the k-th group and 0 in every other column.           *)
ModulationOutput ==
    Modulated =>
        /\ Len(modulated_signal) * B = Len(bits)
        /\ \A k \in DOMAIN modulated_signal :
             /\ DOMAIN modulated_signal[k] = 0..(M - 1)
             /\ \A j \in 0..(M - 1) :
                  modulated_signal[k][j] =
                      IF j = AlphabetIndex(Group(bits, k, B)) THEN 1 ELSE 0

\* two 8PSK symbols whose order shows: raw 4 (index 6) first, raw 2 (index 3) second
ModulationOutputWitness ==
    /\ pc = "modulated"
    /\ modulation_type = "8PSK"
    /\ input_bits = <<1, 0, 0, 0, 1, 0>>
    /\ Len(modulated_signal) = 2
    /\ modulated_signal[1][6] = 1
    /\ modulated_signal[2][3] = 1

----------------------------------------------------------------------------
(* C1 - Noiseless round trip: for each scheme and every bit sequence, when *)
(* the one-hot matrix reaches demodulate_signal unchanged and A = 1,       *)
(* removing the padding reported by the modulator from the demodulated     *)
(* bits gives back exactly the original bits.                              *)
NoiselessRoundTrip ==
    (pc = "done" /\ Noiseless /\ A = 1) => final_bits = input_bits

\* five bits through 8FSK: two symbols with raw values 5 and 6, one padded bit
NoiselessRoundTripWitness ==
    /\ pc = "done"
    /\ Noiseless
    /\ A = 1
    /\ modulation_type = "8FSK"
    /\ input_bits = <<1, 0, 1, 1, 1>>
    /\ detected_symbols = <<7, 5>>
    /\ final_bits = <<1, 0, 1, 1, 1>>

----------------------------------------------------------------------------
(* C2 - Bijection: the modulator's bits-to-index mapping and the           *)
(* demodulator's symbol_to_bits are inverse to each other.  Every bit      *)
(* group the modulator mapped to an index is what symbol_to_bits returns   *)
(* for that index, and every pattern symbol_to_bits produced for a         *)
(* detected index is mapped by the modulator back to that index.           *)
BitsToIndex(g) ==
    IF modulation_type = "8FSK" THEN binary_to_gray(int_base2(g))
    ELSE IF modulation_type = "16QAM" THEN symbol_to_index(g)
    ELSE PSK8Modulator_gray_map[int_base2(g)]

SymbolToBits(i) ==
    IF modulation_type = "8FSK" THEN FSK8Demodulator_symbol_to_bits(i)
    ELSE IF modulation_type = "16QAM" THEN QAM16Demodulator_symbol_to_bits(i)
    ELSE PSK8Demodulator_symbol_to_bits(i)

\* the column of row k of the modulated signal that holds the 1
SentIndex(k) == CHOOSE j \in 0..(M - 1) : modulated_signal[k][j] = 1

Bijection ==
    /\ Modulated =>
         \A k \in DOMAIN modulated_signal :
            SymbolToBits(SentIndex(k)) = Group(bits, k, B)
    /\ Demodulated =>
         \A k \in DOMAIN detected_symbols :
            /\ detected_symbols[k] \in 0..(M - 1)
            /\ BitsToIndex(Group(demodulated_bits, k, B)) = detected_symbols[k]

\* noise moved an 8PSK symbol sent at index 0 to index 5, whose pattern is 110
BijectionWitness ==
    /\ pc = "demodulated"
    /\ modulation_type = "8PSK"
    /\ Len(modulated_signal) = 2
    /\ SentIndex(1) = 0
    /\ detected_symbols[1] = 5
    /\ SubSeq(demodulated_bits, 1, 3) = <<1, 1, 0>>

----------------------------------------------------------------------------
(* C6 - Detection rule: for every received row r and amplitude A, the      *)
(* detected index i is in 0..M-1 and minimizes the squared Euclidean       *)
(* distance sum_j (r_j - s_i_j)^2 to the ideal vector s_i (A at i, 0       *)
(* elsewhere); among the indices attaining the minimum it is the lowest.   *)
RECURSIVE SumSqDiff(_, _, _)
SumSqDiff(r, i, cols) ==
    IF cols = {} THEN 0
    ELSE LET j == CHOOSE x \in cols : TRUE
             d == r[j] - (IF j = i THEN A ELSE 0)
         IN  d * d + SumSqDiff(r, i, cols \ {j})

SqDist(r, i) == SumSqDiff(r, i, 0..(M - 1))

DetectionRule ==
    Demodulated =>
        /\ Len(detected_symbols) = Len(received_matrix)
        /\ \A k \in DOMAIN received_matrix :
             LET r == received_matrix[k]
                 i == detected_symbols[k]
                 d_i == SqDist(r, i)
             IN  /\ i \in 0..(M - 1)
                 /\ IsReal(r) =>
                      \A j \in 0..(M - 1) :
                         LET d_j == SqDist(r, j)
                         IN  /\ d_i <= d_j
                             /\ j < i => d_j > d_i

\* a tie: the symbol sent at index 6 received with a noise sample of 1 at
\* index 2, so indices 2 and 6 are equally near and 2 is detected
DetectionRuleWitness ==
    /\ pc = "demodulated"
    /\ route = "channel"
    /\ modulation_type = "8FSK"
    /\ A = 1
    /\ Len(received_matrix) = 2
    /\ SentIndex(1) = 6
    /\ received_matrix[1][2] = 1
    /\ received_matrix[1][6] = 1
    /\ SqDist(received_matrix[1], 2) = SqDist(received_matrix[1], 6)
    /\ detected_symbols[1] = 2

----------------------------------------------------------------------------
(* C7 - Padding removal: the demodulated bits are the patterns of the      *)
(* detected indices concatenated in symbol order; the final bits are those *)
(* bits without their last `padding` bits, unchanged when padding is 0,    *)
(* and as many as the original bits of the frame.                          *)
PaddingRemoval ==
    /\ Demodulated =>
         /\ Len(demodulated_bits) = Len(detected_symbols) * B
         /\ \A k \in DOMAIN detected_symbols :
              AlphabetIndex(Group(demodulated_bits, k, B)) = detected_symbols[k]
    /\ pc = "done" =>
         /\ Len(final_bits) = Len(demodulated_bits) - padding
         /\ \A i \in 1..Len(final_bits) : final_bits[i] = demodulated_bits[i]
         /\ padding = 0 => final_bits = demodulated_bits
         /\ route # "foreign" => Len(final_bits) = Len(input_bits)

\* a frame that needed no padding keeps all its demodulated bits
PaddingRemovalWitness ==
    /\ pc = "done"
    /\ padding = 0
    /\ modulation_type = "8PSK"
    /\ Len(input_bits) = 6
    /\ demodulated_bits = <<1, 1, 0, 0, 0, 1>>
    /\ final_bits = <<1, 1, 0, 0, 0, 1>>

----------------------------------------------------------------------------
(* C8 - Gray adjacency: under 8FSK and 8PSK, whenever two groups of a      *)
(* frame have raw values n and n + 1 (n in 0..6), the one-hot indices      *)
(* assigned to them differ in exactly one bit of their 3-bit form.         *)
BitAt(n, p) == (n \div (2 ^ p)) % 2

HammingDistance(a, b, width) ==
    Cardinality({p \in 0..(width - 1) : BitAt(a, p) # BitAt(b, p)})

GrayAdjacency ==
    (Modulated /\ modulation_type \in {"8FSK", "8PSK"}) =>
        \A k1, k2 \in DOMAIN modulated_signal :
            Value(Group(bits, k1, 3)) + 1 = Value(Group(bits, k2, 3)) =>
                HammingDistance(SentIndex(k1), SentIndex(k2), 3) = 1

\* raw values 3 and 4 (011, 100: all three bits differ) sit at indices 2 and 6
GrayAdjacencyWitness ==
    /\ pc = "modulated"
    /\ modulation_type = "8FSK"
    /\ input_bits = <<0, 1, 1, 1, 0, 0>>
    /\ SentIndex(1) = 2
    /\ SentIndex(2) = 6

----------------------------------------------------------------------------
(* C9 - 16QAM table mapping: for every 4-bit group the modulator emits the *)
(* point of the group's table row and a one-hot index equal to the row's   *)
(* position; the demodulator maps every index to the pattern and the point *)
(* of that row; bits 0100 give (-3,+3) at index 0 and come back unchanged  *)
(* without noise.                                                          *)

\* position (from 0) of a pattern in the table's row order
TablePosition(g) == (CHOOSE p \in 1..16 : QamOrder[p] = Value(g)) - 1

\* the table is written as the grid: four rows Q = +3, +1, -1, -3 of four
\* points I = -3, -1, +1, +3
GridPoint(p) == << <<-3, -1, 1, 3>>[(p % 4) + 1], <<3, 1, -1, -3>>[(p \div 4) + 1] >>

QAM16TableMapping ==
    modulation_type = "16QAM" =>
        /\ Modulated =>
             \A k \in DOMAIN modulated_signal :
                LET p == TablePosition(Group(bits, k, 4))
                IN  /\ mod_info.iq_values[k] = GridPoint(p)
                    /\ SentIndex(k) = p
        /\ Demodulated =>
             \A k \in DOMAIN detected_symbols :
                LET i == detected_symbols[k]
                IN  /\ symbol_info[k].index = i
                    /\ TablePosition(symbol_info[k].bits) = i
                    /\ symbol_info[k].bits = Group(demodulated_bits, k, 4)
                    /\ symbol_info[k].point = GridPoint(i)
        /\ (Modulated /\ input_bits = <<0, 1, 0, 0>>) =>
             /\ mod_info.iq_values = << <<-3, 3>> >>
             /\ SentIndex(1) = 0
        /\ (pc = "done" /\ Noiseless /\ A > 0 /\ input_bits = <<0, 1, 0, 0>>) =>
             /\ detected_symbols = <<0>>
             /\ symbol_info[1].point = <<-3, 3>>
             /\ final_bits = <<0, 1, 0, 0>>

QAM16TableMappingWitness ==
    /\ pc = "done"
    /\ modulation_type = "16QAM"
    /\ Noiseless
    /\ A = 1
    /\ input_bits = <<0, 1, 0, 0>>
    /\ mod_info.iq_values = << <<-3, 3>> >>
    /\ modulated_signal[1][0] = 1
    /\ detected_symbols = <<0>>
    /\ final_bits = <<0, 1, 0, 0>>

----------------------------------------------------------------------------
(* C10 - 16QAM Gray table: in the modulator's and in the demodulator's     *)
(* table the 16 patterns are pairwise distinct and are all the 4-bit       *)
(* patterns, the 16 points are pairwise distinct and are the whole grid    *)
(* {-3,-1,+1,+3} x {-3,-1,+1,+3}, and two points that are nearest          *)
(* neighbours on the grid carry patterns differing in exactly one bit;     *)
(* so does every emitted point with each of its neighbours in the table.   *)
Grid == {-3, -1, 1, 3} \X {-3, -1, 1, 3}

Abs(x) == IF x < 0 THEN 0 - x ELSE x

NearestNeighbours(p, q) ==
    \/ p[2] = q[2] /\ Abs(p[1] - q[1]) = 2
    \/ p[1] = q[1] /\ Abs(p[2] - q[2]) = 2

IsGrayTable(T) ==
    /\ Len(T) = 16
    /\ \A e \in 1..16 : T[e][1] \in [1..4 -> {0, 1}]
    /\ {Value(T[e][1]) : e \in 1..16} = 0..15
    /\ {T[e][2] : e \in 1..16} = Grid
    /\ \A e1, e2 \in 1..16 :
         NearestNeighbours(T[e1][2], T[e2][2]) =>
             HammingDistance(Value(T[e1][1]), Value(T[e2][1]), 4) = 1

QAM16GrayTable ==
    /\ (pc = "modulated" /\ modulation_type = "16QAM") =>
          IsGrayTable(QAM16Modulator_gray_symbol_map)
    /\ (pc = "demodulated" /\ modulation_type = "16QAM") =>
          IsGrayTable(QAM16Demodulator_gray_symbol_map)
    /\ (pc = "modulated" /\ modulation_type = "16QAM") =>
          \A k \in DOMAIN modulated_signal :
             \A e \in 1..16 :
                LET entry == QAM16Demodulator_gray_symbol_map[e]
                    g     == Group(bits, k, 4)
                IN  /\ NearestNeighbours(mod_info.iq_values[k], entry[2]) =>
                          HammingDistance(Value(g), Value(entry[1]), 4) = 1
                    /\ entry[1] # g => entry[2] # mod_info.iq_values[k]

\* a frame holding 0110 and 0100: neighbours (-1,+3) and (-3,+3), one bit apart
QAM16GrayTableWitness ==
    /\ pc = "modulated"
    /\ modulation_type = "16QAM"
    /\ bits = <<0, 1, 1, 0, 0, 1, 0, 0>>
    /\ mod_info.iq_values = << <<-1, 3>>, <<-3, 3>> >>
    /\ NearestNeighbours(mod_info.iq_values[1], mod_info.iq_values[2])

----------------------------------------------------------------------------
(* C11 - 8FSK mapping: for every 3-bit group of value n the 8FSK modulator *)
(* sets the one-hot position n XOR (n >> 1) and emits the frequency        *)
(* 1000 + 1000 * (n XOR (n >> 1)) Hz; the demodulator reports the          *)
(* frequency 1000 + 1000 * i of the detected position i and the n whose    *)
(* position is i, which without noise are the frequency sent and the group *)
(* sent; bits 1,0,1 give raw value 5, index 7, the one-hot vector with its *)
(* 1 in the last of 8 components, 8000 Hz, and come back as 1,0,1.         *)

\* n XOR (n >> 1) of a 3-bit value, bit by bit
XorShift(n) ==
    4 * BitAt(n, 2)
    + 2 * ((BitAt(n, 2) + BitAt(n, 1)) % 2)
    + ((BitAt(n, 1) + BitAt(n, 0)) % 2)

FSK8Mapping ==
    modulation_type = "8FSK" =>
        /\ Modulated =>
             \A k \in DOMAIN modulated_signal :
                LET n == Value(Group(bits, k, 3))
                IN  /\ \A j \in 0..7 :
                         modulated_signal[k][j] = IF j = XorShift(n) THEN 1 ELSE 0
                    /\ mod_info.symbol_values[k] = 1000 + 1000 * XorShift(n)
        /\ Demodulated =>
             \A k \in DOMAIN detected_symbols :
                LET i == detected_symbols[k]
                    n == symbol_info[k].binary
                IN  /\ symbol_info[k].point = 1000 + 1000 * i
                    /\ n \in 0..7
                    /\ XorShift(n) = i
                    /\ Value(Group(demodulated_bits, k, 3)) = n
        /\ (Demodulated /\ Noiseless /\ A = 1) =>
             \A k \in DOMAIN detected_symbols :
                /\ symbol_info[k].point = mod_info.symbol_values[k]
                /\ symbol_info[k].binary = Value(Group(bits, k, 3))
        /\ (Modulated /\ input_bits = <<1, 0, 1>>) =>
             /\ modulated_signal = << [j \in 0..7 |-> IF j = 7 THEN 1 ELSE 0] >>
             /\ mod_info.symbol_values = <<8000>>
        /\ (Demodulated /\ Noiseless /\ A = 1 /\ input_bits = <<1, 0, 1>>) =>
             /\ detected_symbols = <<7>>
             /\ symbol_info[1].binary = 5
             /\ symbol_info[1].point = 8000
             /\ demodulated_bits = <<1, 0, 1>>

\* the scenario 1,0,1 through 8FSK without noise
FSK8MappingWitness ==
    /\ pc = "done"
    /\ route = "direct"
    /\ modulation_type = "8FSK"
    /\ A = 1
    /\ input_bits = <<1, 0, 1>>
    /\ modulated_signal[1][7] = 1
    /\ mod_info.symbol_values = <<8000>>
    /\ symbol_info[1].point = 8000
    /\ symbol_info[1].binary = 5
    /\ final_bits = <<1, 0, 1>>

----------------------------------------------------------------------------
(* C12 - Energy normalization: whenever calculate_snr_metrics is called    *)
(* with an N0 other than 0, for every scheme it reports Es = 1 and         *)
(* Eb = 1 / bitsPerSymbol with the bitsPerSymbol of the modulator (3, 4,   *)
(* 3), the same for every such N0; called with N0 = 0 it raises a division *)
(* by zero and reports nothing.                                            *)

\* add_awgn returned and calculate_snr_metrics was called in the channel run
ChannelComputed ==
    /\ route = "channel"
    /\ \/ pc \in {"received", "demodulation_failed", "demodulated", "done",
                  "compared"}
       \/ pc = "channel_failed" /\ error = "ZeroDivisionError"

----------------------------------------------------------------------------
(* C13 - Channel output: the noisy array and the noise array returned by   *)
(* add_awgn have the shape of the signal it was given, every component of  *)
(* the noisy array is the signal's component plus the noise's component    *)
(* (NaN when the noise is NaN), whether or not the component is the active *)
(* one, and the signal still holds the one-hot rows of the frame.          *)

\* the rows of an array: its one row when it has one dimension
Rows(a) == IF 0 \in DOMAIN a THEN <<a>> ELSE a

ChannelOutput ==
    ChannelComputed =>
        /\ DOMAIN noisy_signal = DOMAIN loaded_signal
        /\ DOMAIN noise = DOMAIN loaded_signal
        /\ Len(Rows(loaded_signal)) = Len(modulated_signal)
        /\ \A k \in DOMAIN Rows(loaded_signal) :
             /\ DOMAIN Rows(loaded_signal)[k] = 0..(M - 1)
             /\ DOMAIN Rows(noisy_signal)[k] = 0..(M - 1)
             /\ DOMAIN Rows(noise)[k] = 0..(M - 1)
             /\ \A j \in 0..(M - 1) :
                  /\ Rows(loaded_signal)[k][j] =
                        IF j = AlphabetIndex(Group(bits, k, B)) THEN 1 ELSE 0
                  /\ Rows(noisy_signal)[k][j] =
                        IF Rows(noise)[k][j] = nan THEN nan
                        ELSE Rows(loaded_signal)[k][j] + Rows(noise)[k][j]

\* a noise sample of 1 on component 2 of a symbol sent at index 6
ChannelOutputWitness ==
    /\ pc = "received"
    /\ modulation_type = "8FSK"
    /\ Len(modulated_signal) = 2
    /\ loaded_signal[1][6] = 1
    /\ loaded_signal[1][2] = 0
    /\ noise[1][2] = 1
    /\ noisy_signal[1][2] = 1
    /\ noisy_signal[1][6] = 1

----------------------------------------------------------------------------
(* C14 - Channel parameter validation: a channel run with N0 <= 0 fails    *)
(* with an error, and leaves no noisy output, no noise output and no SNR   *)
(* metrics.                                                                *)

\* the channel's main ran, to its end or to an exception
ChannelRan ==
    /\ route = "channel"
    /\ pc \in {"received", "channel_failed", "demodulation_failed", "demodulated",
               "done", "compared"}

ChannelParameterValidation ==
    (ChannelRan /\ N0 <= 0) =>
        /\ pc = "channel_failed"
        /\ error # ""
        /\ files.channel_output_txt = <<>>
        /\ files.channel_noise_txt = <<>>
        /\ Len(snr_metrics) = 0

----------------------------------------------------------------------------
(* C15 - Unsupported scheme: demodulate_signal called with a tag other     *)
(* than 8FSK, 16QAM, 8PSK fails with the unsupported-type error, detects   *)
(* no symbol and returns no result; the modulator's menu gives control to  *)
(* a modulator only for the choices 1, 2, 3, each to its own scheme, and   *)
(* any other entry modulates nothing.                                      *)

\* demodulate_signal was called
DemodulateCalled ==
    pc \in {"demodulated", "done", "compared", "demodulation_failed"}

\* the modulator's run went past its menu
ModulatorRan == route # "foreign" /\ pc \notin {"start", "exit"}

UnsupportedScheme ==
    /\ (DemodulateCalled /\ modulation_type \notin {"8FSK", "16QAM", "8PSK"}) =>
          /\ pc = "demodulation_failed"
          /\ error = "ValueError: Tipo de modulacion no soportado"
          /\ detected_symbols = <<>>
          /\ demodulated_bits = <<>>
          /\ symbol_info = <<>>
          /\ final_bits = <<>>
    /\ ModulatorRan =>
          /\ choice \in {"1", "2", "3"}
          /\ Modulated =>
               modulation_type = IF choice = "1" THEN "8FSK"
                                 ELSE IF choice = "2" THEN "16QAM" ELSE "8PSK"
    /\ (route # "foreign" /\ choice \notin {"1", "2", "3"}) =>
          /\ pc \in {"start", "exit"}
          /\ modulation_type = ""
          /\ modulated_signal = <<>>
          /\ bits = <<>>

\* the tag 4ASK with a matrix of 8 columns: the call fails before detection
UnsupportedSchemeWitness ==
    /\ pc = "demodulation_failed"
    /\ modulation_type = "4ASK"
    /\ Len(received_matrix) = 1
    /\ Cardinality(DOMAIN received_matrix[1]) = 8
    /\ error = "ValueError: Tipo de modulacion no soportado"
    /\ detected_symbols = <<>>

----------------------------------------------------------------------------
(* C16 - Malformed bitstream: a bit file holding a value other than 0 or 1 *)
(* makes the modulator's run fail with an error, in either file format and *)
(* under every scheme; no bit list, empty or partial, is modulated and no  *)
(* modulated output or metadata is produced.                               *)
HasMalformedValue ==
    \E i \in DOMAIN input_file.values : input_file.values[i] \notin {0, 1}

MalformedBitstream ==
    (ModulatorRan /\ HasMalformedValue) =>
        /\ pc = "modulation_failed"
        /\ error # ""
        /\ modulated_signal = <<>>
        /\ ~padding_known

----------------------------------------------------------------------------
(* C17 - Empty input: modulating the empty bit sequence of an empty bit    *)
(* file fails with an error under every scheme; no zero-row matrix with    *)
(* padding 0 is returned.                                                  *)
EmptyInput ==
    (ModulatorRan /\ input_file.values = <<>>) =>
        /\ pc = "modulation_failed"
        /\ error # ""

----------------------------------------------------------------------------
(* C18 - Row-width check: demodulate_signal called with a supported tag    *)
(* and a matrix having a row whose width is not the scheme's constellation *)
(* size, width 1 included, fails and returns no detected symbols.          *)
RowWidthCheck ==
    (/\ DemodulateCalled
     /\ modulation_type \in {"8FSK", "16QAM", "8PSK"}
     /\ 0 \notin DOMAIN received_matrix
     /\ \E k \in DOMAIN received_matrix :
           Cardinality(DOMAIN received_matrix[k]) # M) =>
        /\ pc = "demodulation_failed"
        /\ error # ""
        /\ detected_symbols = <<>>

----------------------------------------------------------------------------
(* C19 - Comparison length check: compare_bit_sequences given an original  *)
(* list and a demodulated list of different lengths fails with an error    *)
(* and returns no statistics.                                              *)
ComparisonLengthCheck ==
    (pc = "compared" /\ Len(original_bits) # Len(reconstructed_bits)) =>
        /\ Len(comparison) = 0
        /\ error # ""

----------------------------------------------------------------------------
(* C20 - Unknown padding: when the metadata has no padding entry and the   *)
(* symbols were detected, the demodulation run does not fail; it skips the *)
(* padding removal and its final bits are all the demodulated bits,        *)
(* bitsPerSymbol for each detected symbol.                                 *)
UnknownPadding ==
    (/\ pc \in {"done", "compared", "demodulation_failed"}
     /\ ~padding_known
     /\ detected_symbols # <<>>) =>
        /\ pc # "demodulation_failed"
        /\ final_bits = demodulated_bits
        /\ Len(final_bits) = Len(detected_symbols) * B

----------------------------------------------------------------------------
(* C21 - Per-symbol independence: whatever the other symbols are, an input *)
(* that has the same k-th bit group as the frame is modulated to the same  *)
(* k-th one-hot row, and a received matrix that has the same k-th row as   *)
(* the frame's, detected with the same A, gives the same k-th detected     *)
(* index and the same k-th recovered bit pattern.                          *)

\* a bit list completed with zeros to whole groups of width w
Padded(b, w) == b \o Zeros((w - (Len(b) % w)) % w)

\* bit lists that hold the group g in place k: other bits before it and
\* up to two other bits after it
OtherBits(g, k) ==
    {[i \in 1..((k - 1) * Len(g)) |-> x] \o g \o suffix :
        x \in {0, 1}, suffix \in BitSeqs(2)}

\* a matrix of two rows or more that holds row r in place k, its last, or
\* its first of two, and another row in every other place
OtherMatrix(r, k, m) ==
    [i \in 1..(IF k = 1 THEN 2 ELSE k) |->
        IF i = k THEN r ELSE one_hot(m, (i + k) % m, 2)]

PerSymbolIndependence ==
    /\ pc = "modulated" =>
         \A k \in DOMAIN modulated_signal :
            \A b2 \in OtherBits(Group(bits, k, B), k) :
               /\ Group(Padded(b2, B), k, B) = Group(bits, k, B)
               /\ modulate(choice, b2).modulated_signal[k] = modulated_signal[k]
    /\ (pc = "demodulated" /\ route # "foreign") =>
         \A k \in DOMAIN received_matrix :
            LET other    == OtherMatrix(received_matrix[k], k, M)
                detected == detect(other, modulation_type, A)
            IN  /\ detected[k] = detected_symbols[k]
                /\ Group(symbols_to_bits(modulation_type, detected), k, B)
                      = Group(demodulated_bits, k, B)

\* a frame of two symbols received with noise on the second: the first
\* symbol is detected as sent while the second is detected elsewhere
PerSymbolIndependenceWitness ==
    /\ pc = "demodulated"
    /\ route = "channel"
    /\ A = 1
    /\ Len(received_matrix) = 2
    /\ noise[2] # noise[1]
    /\ detected_symbols[1] = SentIndex(1)
    /\ detected_symbols[2] # SentIndex(2)

----------------------------------------------------------------------------
(* C22 - Reproducible noise: the channel run again on the same signal with *)
(* the same N0 (the program takes no seed, so the seed is the same: none)  *)
(* draws the same noise matrix as the run before it.                       *)
ReproducibleNoise ==
    [][(/\ pc = "received"
        /\ pc' = "received"
        /\ loaded_signal' = loaded_signal
        /\ N0' = N0) => noise' = noise]_vars

----------------------------------------------------------------------------
(* C23 - Hand-off metadata: the metadata saved by the modulator for L bits *)
(* has total_symbols * bitsPerSymbol = L + padding and constellation_size  *)
(* = 2^bitsPerSymbol; the channel's info carries its modulation_type,      *)
(* constellation_size, total_symbols and padding unchanged; the padding    *)
(* and bits_per_character reported by the demodulator are the modulator's. *)
HandOffMetadata ==
    /\ files.modulation_metadata # <<>> =>
         LET metadata == files.modulation_metadata[1]
         IN  /\ metadata.modulation_type = modulation_type
             /\ metadata.total_symbols * B = Len(input_bits) + metadata.padding
             /\ metadata.constellation_size = 2 ^ B
             /\ metadata.padding = padding
             /\ metadata.bits_per_character =
                   read_bits_from_file(input_file).bits_per_character
    /\ files.channel_info # <<>> =>
         LET metadata == files.modulation_metadata[1]
             channel_info == files.channel_info[1]
         IN  /\ channel_info.modulation_type = metadata.modulation_type
             /\ channel_info.constellation_size = metadata.constellation_size
             /\ channel_info.total_symbols = metadata.total_symbols
             /\ channel_info.padding = metadata.padding
    /\ files.demodulation_info # <<>> =>
         LET metadata == files.modulation_metadata[1]
             demod_info == files.demodulation_info[1]
         IN  /\ demod_info.padding_removed = metadata.padding
             /\ demod_info.bits_per_character = metadata.bits_per_character

\* a file of codes modulated with padding, sent through the channel and
\* demodulated: the three stages have written their metadata
HandOffMetadataWitness ==
    /\ pc = "done"
    /\ route = "channel"
    /\ files.modulation_metadata # <<>>
    /\ files.channel_info # <<>>
    /\ files.demodulation_info # <<>>
    /\ files.modulation_metadata[1].total_symbols = 2
    /\ files.channel_info[1].padding = 2
    /\ files.demodulation_info[1].padding_removed = 2
    /\ files.demodulation_info[1].bits_per_character > 1

----------------------------------------------------------------------------
(* C24 - One result per received symbol through the file hand-off: for a   *)
(* frame of n >= 1 symbols written by the modulator, passed through the    *)
(* channel's files and loaded by the demodulator, the loaded matrix has n  *)
(* rows of constellation_size components and the demodulator returns n     *)
(* detected indices, each in 0..constellation_size-1.                      *)
OneResultPerSymbol ==
    (/\ route = "channel"
     /\ pc \in {"demodulation_failed", "demodulated", "done", "compared"}
     /\ Len(modulated_signal) >= 1) =>
        /\ Len(detected_symbols) = Len(modulated_signal)
        /\ \A k \in DOMAIN detected_symbols : detected_symbols[k] \in 0..(M - 1)
        /\ 0 \notin DOMAIN received_matrix
        /\ Len(received_matrix) = Len(modulated_signal)
        /\ \A k \in DOMAIN received_matrix :
              DOMAIN received_matrix[k] = 0..(M - 1)

----------------------------------------------------------------------------
(* C25 - No partial processing on error: when modulate fails because the   *)
(* input holds a value other than 0 and 1, the caller's bit list is as it  *)
(* was before the call: no padding zeros have been appended to it.         *)
NoPartialProcessing ==
    pc = "modulation_failed" => bits = input_bits

----------------------------------------------------------------------------
(* C26 - End-to-end zero error without noise: for a file of binary codes   *)
(* of width bits_per_character, flattened, modulated with any scheme,      *)
(* demodulated from the unmodified one-hot matrix (reference amplitude     *)
(* positive), with the recorded padding removed and the bits regrouped by  *)
(* reconstruct_voice_format, compare_bit_sequences reports total_codigos   *)
(* equal to the number of codes of the file and no code or bit in error.   *)
EndToEndZeroError ==
    (/\ pc = "compared"
     /\ route \in {"direct", "channel"}
     /\ input_file.format = 1
     /\ Noiseless
     /\ A > 0) =>
        /\ comparison[1].total_codigos = Len(input_file.values) \div input_file.header
        /\ comparison[1].errores_por_codigo = 0
        /\ comparison[1].errores_por_bit = 0

\* two codes of two bits, 01 and 10, sent as two 8PSK symbols with two
\* padding bits and compared after the round trip
EndToEndZeroErrorWitness ==
    /\ pc = "compared"
    /\ input_file = [format |-> 1, header |-> 2, values |-> <<0, 1, 1, 0>>]
    /\ modulation_type = "8PSK"
    /\ Noiseless
    /\ A = 1
    /\ padding = 2
    /\ original_bits = <<<<0, 1>>, <<1, 0>>>>
    /\ reconstructed_bits = original_bits
    /\ comparison[1].total_codigos = 2
    /\ comparison[1].total_bits = 4

----------------------------------------------------------------------------
(* C27 - Gray coding of neighbouring constellation slots: for 8FSK and     *)
(* 8PSK and every one-hot index k in 0..6, the 3-bit patterns that the     *)
(* demodulator's symbol_to_bits gives to index k and to index k + 1 differ *)
(* in exactly one bit.                                                     *)

\* number of places in which two bit patterns of the same length differ
PatternDistance(p, q) == Cardinality({i \in DOMAIN p : p[i] # q[i]})

NeighbourSlotGray ==
    (Demodulated /\ modulation_type \in {"8FSK", "8PSK"}) =>
        \A k \in 0..6 :
            PatternDistance(symbol_to_bits(modulation_type, k),
                            symbol_to_bits(modulation_type, k + 1)) = 1

----------------------------------------------------------------------------
(* C28 - Detection is a largest-component pick: for every received row of  *)
(* real numbers and every reference amplitude A > 0, the index returned by *)
(* demodulate_bayes is the lowest index at which the row has its largest   *)
(* component, so every A > 0 gives the same detected indices.              *)

\* the lowest index at which a row over 0..m-1 has its largest component
LowestArgmax(r, m) ==
    CHOOSE i \in 0..(m - 1) :
        /\ \A j \in 0..(m - 1) : r[j] <= r[i]
        /\ \A j \in 0..(i - 1) : r[j] < r[i]

LargestComponentPick ==
    /\ (pc = "demodulated" /\ route # "foreign" /\ A > 0) =>
         \A k \in DOMAIN detected_symbols :
            IsReal(received_matrix[k]) =>
               detected_symbols[k] = LowestArgmax(received_matrix[k], M)
    /\ (pc = "demodulated" /\ route # "foreign" /\ A = 1) =>
         ((\A k \in DOMAIN received_matrix : IsReal(received_matrix[k])) =>
             \A amp \in 2..MaxAmp :
                detect(received_matrix, modulation_type, amp) = detected_symbols)

\* the sent component lowered by the noise to the level of the others,
\* A = 2: the first of the equal components is detected, not the sent one
LargestComponentPickWitness ==
    /\ pc = "demodulated"
    /\ route = "channel"
    /\ A = 2
    /\ Len(received_matrix) = 2
    /\ IsReal(received_matrix[1])
    /\ SentIndex(1) > 0
    /\ received_matrix[1][SentIndex(1)] = 0
    /\ detected_symbols[1] = 0
    /\ detected_symbols[1] = LowestArgmax(received_matrix[1], M)

----------------------------------------------------------------------------
(* C29 - 8FSK and 8PSK share one index mapping: the 8PSK table gray_map[n] *)
(* is n XOR (n >> 1) for every raw value n in 0..7 and inverse_gray_map[k] *)
(* is gray_to_binary(k) for every k in 0..7, so the two modulators give    *)
(* the same one-hot matrix and padding for every bit sequence and the two  *)
(* demodulators recover the same bits from the same received matrix.       *)
SharedIndexMapping ==
    /\ (pc = "modulated" /\ modulation_type \in {"8FSK", "8PSK"}) =>
         /\ \A n \in 0..7 :
               /\ PSK8Modulator_gray_map[n] = XorShift(n)
               /\ PSK8Modulator_gray_map[n] = binary_to_gray(n)
         /\ FSK8Modulator_modulate(input_bits).modulated_signal = modulated_signal
         /\ PSK8Modulator_modulate(input_bits).modulated_signal = modulated_signal
         /\ FSK8Modulator_modulate(input_bits).padding = padding
         /\ PSK8Modulator_modulate(input_bits).padding = padding
    /\ (pc = "demodulated" /\ route # "foreign"
           /\ modulation_type \in {"8FSK", "8PSK"}) =>
         /\ \A k \in 0..7 :
               /\ inverse_gray_map[k] = gray_to_binary(k)
               /\ XorShift(inverse_gray_map[k]) = k
         /\ detect(received_matrix,
                   IF modulation_type = "8FSK" THEN "8PSK" ELSE "8FSK", A)
               = detected_symbols
         /\ symbols_to_bits("8FSK", detected_symbols) = demodulated_bits
         /\ symbols_to_bits("8PSK", detected_symbols) = demodulated_bits

\* 1,0,1,1 through 8PSK: raw values 5 and 4, one-hot indices 7 and 6, as
\* 8FSK marks them, and the bits 1,0,1,1,0,0 recovered
SharedIndexMappingWitness ==
    /\ pc = "demodulated"
    /\ route = "direct"
    /\ modulation_type = "8PSK"
    /\ input_bits = <<1, 0, 1, 1>>
    /\ FSK8Modulator_modulate(input_bits).modulated_signal = modulated_signal
    /\ A = 1
    /\ detected_symbols = <<7, 6>>
    /\ demodulated_bits = <<1, 0, 1, 1, 0, 0>>

----------------------------------------------------------------------------
(* C30 - Padding is applied in place and is idempotent: after modulate     *)
(* returns, the caller's list is the padded sequence; apply_padding, or    *)
(* modulate with the same scheme, applied a second time to that list adds  *)
(* no bits and reports padding 0, so only the first call gives the count   *)
(* that recovers the original length.                                      *)
PaddingIdempotent ==
    /\ pc = "modulated" =>
         /\ bits = input_bits \o Zeros(padding)
         /\ apply_padding(bits, B).bits = bits
         /\ apply_padding(bits, B).padding = 0
    /\ pc = "modulated_again" =>
         /\ bits = input_bits \o Zeros(padding)
         /\ second_results[1].bits = bits
         /\ second_results[1].padding = 0
         /\ second_results[1].modulated_signal = modulated_signal
         /\ Len(bits) - second_results[1].padding = Len(input_bits) + padding

\* one bit modulated with 8FSK, two zeros appended to the caller's list;
\* the second modulate of that list reports no padding
PaddingIdempotentWitness ==
    /\ pc = "modulated_again"
    /\ choice = "1"
    /\ input_bits = <<1>>
    /\ padding = 2
    /\ bits = <<1, 0, 0>>
    /\ second_results[1].padding = 0
    /\ second_results[1].bits = <<1, 0, 0>>

====
